---- MODULE Spec2Model ----
(***************************************************************************)
(* Model of jmc_rev_roadsearch.py: the corridor search road_search and the *)
(* helpers it calls (create_buffer, global_area, chosen_area, the          *)
(* containment test and the deduplication pass).                           *)
(*                                                                         *)
(* Numbers.  Geographic coordinates are integers in units of 1e-7 degree   *)
(* (25.7742001 degrees is 257742001).  Planar (UTM) coordinates are        *)
(* integers in units of PlanarUnit metres.  Radii are metres.  Expansion   *)
(* factors are integers in units of 1/FactorDen (0.02 is 2).               *)
(***************************************************************************)
EXTENDS Integers, Sequences, FiniteSets, TLC

VARIABLES
    pc,          \* position of road_search
    err,         \* the exception road_search ended with, or NoErr
    buffer_m,    \* parameter buffer_m of road_search
    gpsx,        \* coordinates returned by find_roadway
    buff_geom,   \* corridor returned by create_buffer
    bbox_search, \* envelope returned by global_area
    elements,    \* candidates returned by search_zone
    i,           \* index of the next candidate of the filter loop (line 170)
    results,     \* accepted records (line 169)
    j,           \* index of the next record of the dedup loop (line 195)
    found,       \* keys already seen (line 193)
    deduped,     \* records kept (line 194)
    epc,         \* position of the stand-alone global_area call
    geomBounds,  \* its argument geom.bounds
    f1, f2,      \* two expansion factors, f1 < f2
    env1, env2   \* global_area(geom, f1), global_area(geom, f2)

vars == <<pc, err, buffer_m, gpsx, buff_geom, bbox_search, elements, i,
          results, j, found, deduped, epc, geomBounds, f1, f2, env1, env2>>

searchVars == <<pc, err, buffer_m, gpsx, buff_geom, bbox_search, elements, i,
                results, j, found, deduped>>
envVars == <<epc, geomBounds, f1, f2, env1, env2>>

----------------------------------------------------------------------------
(* Bounds of the model *)

MaxElements == 2    \* longest candidate list search_zone returns

----------------------------------------------------------------------------
(* Units and program constants *)

DegUnit == 10000000          \* 1 degree, in 1e-7 degree
HalfTurn == 180              \* line 59: gpsx[0][0] + 180
ZoneWidth == 6               \* line 59: / 6
PlanarUnit == 100            \* metres per planar unit
DegPerPlanar == 9000         \* 1e-7 degrees per planar unit (100 m of arc)
FalseEasting == 5000         \* UTM false easting, 500 km, in planar units
FactorDen == 100             \* expansion factors are hundredths
DefaultExpand == 2           \* line 165: expand_factor=0.02
FixedPad == 100000           \* lines 75-76: + 0.01 degree
RoundDigits == 6             \* lines 198-199: round(.., 6)
DefaultBuffer == 500         \* line 218: buffer_m=500

None == "<None>"             \* Python's None
NoErr == "<none>"
roadway_name == "I 95"

Sign(x) == IF x < 0 THEN -1 ELSE IF x > 0 THEN 1 ELSE 0
Min(S) == CHOOSE x \in S : \A y \in S : x <= y
Max(S) == CHOOSE x \in S : \A y \in S : x >= y

\* dict.get(k), and dict.get(k, default)
Get(d, k) == IF k \in DOMAIN d THEN d[k] ELSE None
GetDef(d, k, default) == IF k \in DOMAIN d THEN d[k] ELSE default
\* a or b, on strings and None
Or(a, b) == IF a # None /\ a # "" THEN a ELSE b

----------------------------------------------------------------------------
(* Coordinate projection (lines 59-64) *)

\* int((lon + 180) / 6) + 1
utm_zone(lon) == ((lon + HalfTurn * DegUnit) \div (ZoneWidth * DegUnit)) + 1

\* central meridian of a UTM zone, in 1e-7 degree
CentralMeridian(zone) == (ZoneWidth * zone - HalfTurn - 3) * DegUnit

\* trans_to_utm: (lon, lat) -> planar (x, y)
trans_to_utm(zone, p) ==
    << FalseEasting + ((p[1] - CentralMeridian(zone)) \div DegPerPlanar),
       p[2] \div DegPerPlanar >>

\* trans_to_wgs: planar (x, y) -> (lon, lat)
trans_to_wgs(zone, q) ==
    << CentralMeridian(zone) + (q[1] - FalseEasting) * DegPerPlanar,
       q[2] * DegPerPlanar >>

----------------------------------------------------------------------------
(* Corridor (lines 57-68) *)

EmptyGeom == [empty |-> TRUE, zone |-> 0, line |-> << >>, r |-> 0]

\* seg_m.buffer(buffer_m): the region within buffer_m of the planar line;
\* empty for a radius that is not positive
BufferOf(zone, line, r) ==
    IF r <= 0 THEN EmptyGeom
    ELSE [empty |-> FALSE, zone |-> zone, line |-> line, r |-> r]

\* create_buffer with the axes of the transform swapped (always_xy left out)
create_buffer_latlon(g, r) ==
    LET zone == utm_zone(g[1][1])
        seg_m == [k \in 1..Len(g) |-> trans_to_utm(zone, <<g[k][2], g[k][1]>>)]
    IN  BufferOf(zone, seg_m, r)

create_buffer(g, r) ==
    LET zone == utm_zone(g[1][1])
        seg_m == [k \in 1..Len(g) |-> trans_to_utm(zone, g[k])]
    IN  BufferOf(zone, seg_m, r)

\* side of planar point P relative to the circle/strip of radius r metres
\* around segment A-B: -1 inside, 0 on the boundary, 1 outside
SegSide(P, A, B, r) ==
    LET dx == B[1] - A[1]
        dy == B[2] - A[2]
        px == P[1] - A[1]
        py == P[2] - A[2]
        qx == P[1] - B[1]
        qy == P[2] - B[2]
        L == dx * dx + dy * dy
        t == px * dx + py * dy
        cross == px * dy - py * dx
        U2 == PlanarUnit * PlanarUnit
    IN  IF L = 0 \/ t <= 0 THEN Sign((px * px + py * py) * U2 - r * r)
        ELSE IF t >= L THEN Sign((qx * qx + qy * qy) * U2 - r * r)
        ELSE Sign(cross * cross * U2 - r * r * L)

\* radius in planar units, rounded up
PlanarReach(r) == (r + PlanarUnit - 1) \div PlanarUnit

\* planar bounding box of the buffer contains P
InReach(P, geom) ==
    LET xs == {geom.line[k][1] : k \in 1..Len(geom.line)}
        ys == {geom.line[k][2] : k \in 1..Len(geom.line)}
        R == PlanarReach(geom.r)
    IN  /\ Min(xs) - R <= P[1] /\ P[1] <= Max(xs) + R
        /\ Min(ys) - R <= P[2] /\ P[2] <= Max(ys) + R

\* side of planar point P relative to the buffer polygon
GeomSide(P, geom) ==
    IF ~InReach(P, geom) THEN 1
    ELSE IF Len(geom.line) = 1
         THEN SegSide(P, geom.line[1], geom.line[1], geom.r)
         ELSE Min({SegSide(P, geom.line[k], geom.line[k + 1], geom.r) :
                     k \in 1..(Len(geom.line) - 1)})

\* Point(lon, lat).within(buff_geom) (line 175): the point is in the
\* interior of the polygon; a point of the boundary is not within
within(pt, geom) ==
    /\ ~geom.empty
    /\ GeomSide(trans_to_utm(geom.zone, pt), geom) < 0

\* geom.bounds (line 72), in 1e-7 degree
Bounds(geom) ==
    LET xs == {geom.line[k][1] : k \in 1..Len(geom.line)}
        ys == {geom.line[k][2] : k \in 1..Len(geom.line)}
        lo == trans_to_wgs(geom.zone, <<Min(xs), Min(ys)>>)
        hi == trans_to_wgs(geom.zone, <<Max(xs), Max(ys)>>)
        rd == (geom.r * DegPerPlanar) \div PlanarUnit
    IN  [nan |-> FALSE, minx |-> lo[1] - rd, miny |-> lo[2] - rd,
         maxx |-> hi[1] + rd, maxy |-> hi[2] + rd]

NaNBounds == [nan |-> TRUE, minx |-> 0, miny |-> 0, maxx |-> 0, maxy |-> 0]

----------------------------------------------------------------------------
(* Search envelope (lines 71-77) *)

NaNEnvelope == [nan |-> TRUE, south |-> 0, west |-> 0, north |-> 0, east |-> 0]

\* global_area with the pad taken from the factor alone, not from the extent
global_area_flat(b, expand_factor) ==
    IF b.nan THEN NaNEnvelope
    ELSE LET padx == (FixedPad * expand_factor) \div FactorDen + FixedPad
             pady == (FixedPad * expand_factor) \div FactorDen + FixedPad
         IN  [nan |-> FALSE, south |-> b.miny - pady, west |-> b.minx - padx,
              north |-> b.maxy + pady, east |-> b.maxx + padx]

global_area(b, expand_factor) ==
    IF b.nan THEN NaNEnvelope
    ELSE LET dx == b.maxx - b.minx
             dy == b.maxy - b.miny
             padx == (dx * expand_factor) \div FactorDen + FixedPad
             pady == (dy * expand_factor) \div FactorDen + FixedPad
         IN  [nan |-> FALSE, south |-> b.miny - pady, west |-> b.minx - padx,
              north |-> b.maxy + pady, east |-> b.maxx + padx]

----------------------------------------------------------------------------
(* Candidate to place (lines 104-127) *)

NoPlace == [none |-> TRUE]

chosen_area(elem) ==
    LET isNode == elem["type"] = "node"
        hasCenter == "center" \in DOMAIN elem
        center == IF hasCenter THEN elem["center"] ELSE << >>
        tags == GetDef(elem, "tags", << >>)
        name == Or(Get(tags, "name"), Or(Get(tags, "name:en"), ""))
        name_ascii == Or(Get(tags, "name:ascii"), name)
        name_en == Or(Get(tags, "name:en"), name)
        place_tag == GetDef(tags, "place", "town")
    IN  IF ~isNode /\ ~hasCenter THEN NoPlace
        ELSE [none |-> FALSE,
              placename |-> name,
              placename_ascii |-> name_ascii,
              placename_en |-> name_en,
              placetag |-> place_tag,
              latitude |-> IF isNode THEN elem["lat"] ELSE center["lat"],
              longitude |-> IF isNode THEN elem["lon"] ELSE center["lon"]]

\* the result mapping of lines 178-189
Result(place, state, country) ==
    ("roadway" :> roadway_name) @@
    ("placename" :> place.placename) @@
    ("placename_ascii" :> place.placename_ascii) @@
    ("placename_en" :> place.placename_en) @@
    ("placetag" :> place.placetag) @@
    ("latitude" :> place.latitude) @@
    ("longitude" :> place.longitude) @@
    ("state/province" :> Or(state, "")) @@
    ("state/province-ascii" :> Or(state, "")) @@
    ("country" :> Or(country, ""))

----------------------------------------------------------------------------
(* Deduplication key (lines 196-200) *)

RECURSIVE Pow10(_)
Pow10(n) == IF n = 0 THEN 1 ELSE 10 * Pow10(n - 1)

\* Round to one decimal place fewer
RoundOneLess(v, digits) ==
    LET step == DegUnit \div Pow10(digits - 1)
        q == v \div step
        rem == v % step
    IN  IF 2 * rem < step THEN q
        ELSE IF 2 * rem > step THEN q + 1
        ELSE IF q % 2 = 0 THEN q ELSE q + 1

\* round(float(v), digits) of a value given in 1e-7 degree; the result is in
\* units of 10^-digits degree.  A tie goes to the even neighbour.
Round(v, digits) ==
    LET step == DegUnit \div Pow10(digits)
        q == v \div step
        rem == v % step
    IN  IF 2 * rem < step THEN q
        ELSE IF 2 * rem > step THEN q + 1
        ELSE IF q % 2 = 0 THEN q ELSE q + 1

\* key without the rounding
key_unrounded(r) == << r["placename"], r["latitude"], r["longitude"] >>

key(r) == << r["placename"],
             Round(r["latitude"], RoundDigits),
             Round(r["longitude"], RoundDigits) >>

----------------------------------------------------------------------------
(* Inputs: what the external lookups may return *)

Pt(lon, lat) == <<lon, lat>>

\* find_roadway: a two-point trace, a three-point trace with a diagonal
\* segment, a trace that crosses the boundary of UTM zones 17 and 18, a
\* one-point trace, and no coordinates at all
TraceA == << Pt(-801990000, 257742000), Pt(-801900000, 257742000) >>
TraceB == << Pt(-801990000, 257742000), Pt(-801945000, 257742000),
             Pt(-801918000, 257778000) >>
TraceZ == << Pt(-780009000, 257742000), Pt(-779991000, 257742000) >>
TraceOne == << Pt(-801990000, 257742000) >>
Traces == {TraceA, TraceB, TraceZ, TraceOne, << >>}

Radii == {-DefaultBuffer, 0, 300, DefaultBuffer}

Node(lat, lon, tags) ==
    ("type" :> "node") @@ ("lat" :> lat) @@ ("lon" :> lon) @@ ("tags" :> tags)
Centered(type, lat, lon, tags) ==
    ("type" :> type) @@ ("center" :> [lat |-> lat, lon |-> lon]) @@
    ("tags" :> tags)

\* search_zone: candidates on the trace, 1e-7 and 1e-6 degree north of it,
\* without a center, 500 m north of TraceA, and far north
E1 == Node(257742000, -801939000, ("name" :> "Miami") @@ ("place" :> "city"))
E2 == Node(257742010, -801939000,
           ("name" :> "Miami") @@ ("name:ascii" :> "Miami") @@
           ("place" :> "city"))
E3 == Centered("way", 257742001, -801939000,
               ("name:en" :> "Miami") @@ ("place" :> "city"))
E4 == ("type" :> "relation") @@
      ("tags" :> (("name" :> "Medley") @@ ("place" :> "town")))
E5 == Node(257787000, -801945000, ("name" :> "Hialeah"))
E6 == ("type" :> "node") @@ ("lat" :> 257850000) @@ ("lon" :> -801945000)
Pool == {E1, E2, E3, E4, E5, E6}

SeqsUpTo(S, n) == UNION {[1..k -> S] : k \in 0..n}

\* set_state_country (lines 130-135): what the reverse geocoder answers
GeoAnswers == { <<None, None>>, <<None, "United States">>,
                <<"Florida", "United States">> }

----------------------------------------------------------------------------
(* road_search (lines 157-205) *)

Raise(e) ==
    /\ pc' = "raised"
    /\ err' = e

\* lines 158-159: set_city
SetCity ==
    /\ pc = "set_city"
    /\ \/ /\ pc' = "find_roadway"
          /\ err' = err
       \/ Raise("ValueError: Location not found")
    /\ UNCHANGED <<buffer_m, gpsx, buff_geom, bbox_search, elements, i,
                   results, j, found, deduped>>
    /\ UNCHANGED envVars

\* lines 160-163: find_roadway and the check of its result
FindRoadway ==
    /\ pc = "find_roadway"
    /\ \/ \E g \in Traces :
             /\ gpsx' = g
             /\ IF g = << >>
                THEN Raise("ValueError: No locaton found")
                ELSE pc' = "create_buffer" /\ err' = err
       \/ Raise("HTTPError") /\ gpsx' = gpsx
    /\ UNCHANGED <<buffer_m, buff_geom, bbox_search, elements, i,
                   results, j, found, deduped>>
    /\ UNCHANGED envVars

\* line 164: create_buffer; LineString refuses a single coordinate
CreateBuffer ==
    /\ pc = "create_buffer"
    /\ IF Len(gpsx) < 2
       THEN Raise("LineString: at least 2 coordinates") /\ buff_geom' = buff_geom
       ELSE /\ buff_geom' = create_buffer(gpsx, buffer_m)
            /\ pc' = "global_area"
            /\ err' = err
    /\ UNCHANGED <<buffer_m, gpsx, bbox_search, elements, i,
                   results, j, found, deduped>>
    /\ UNCHANGED envVars

\* lines 165-166: global_area.  The bounds of an empty polygon are four NaN
\* or the empty tuple, depending on the geometry library's version; the
\* empty tuple does not unpack (line 72)
GlobalArea ==
    /\ pc = "global_area"
    /\ \/ /\ ~buff_geom.empty
          /\ bbox_search' = global_area(Bounds(buff_geom), DefaultExpand)
          /\ pc' = "search_zone"
          /\ err' = err
       \/ /\ buff_geom.empty
          /\ bbox_search' = global_area(NaNBounds, DefaultExpand)
          /\ pc' = "search_zone"
          /\ err' = err
       \/ /\ buff_geom.empty
          /\ bbox_search' = bbox_search
          /\ Raise("ValueError: not enough values to unpack")
    /\ UNCHANGED <<buffer_m, gpsx, buff_geom, elements, i,
                   results, j, found, deduped>>
    /\ UNCHANGED envVars

\* lines 167-169: search_zone
SearchZone ==
    /\ pc = "search_zone"
    /\ \/ \E es \in SeqsUpTo(Pool, MaxElements) :
             /\ elements' = es
             /\ pc' = "filter"
             /\ err' = err
       \/ Raise("HTTPError") /\ elements' = elements
    /\ i' = 1
    /\ results' = << >>
    /\ UNCHANGED <<buffer_m, gpsx, buff_geom, bbox_search, j, found, deduped>>
    /\ UNCHANGED envVars

\* Accepts without the containment test
AcceptsAnyPlace(place, geom) == ~place.none

\* lines 171-176: the candidate is kept
Accepts(place, geom) ==
    /\ ~place.none
    /\ within(Pt(place.longitude, place.latitude), geom)

\* lines 170-191: one iteration of the filter loop
FilterStep ==
    /\ pc = "filter"
    /\ i <= Len(elements)
    /\ LET place == chosen_area(elements[i])
       IN  IF Accepts(place, buff_geom)
           THEN \E a \in GeoAnswers :
                   results' = Append(results, Result(place, a[1], a[2]))
           ELSE results' = results
    /\ i' = i + 1
    /\ UNCHANGED <<pc, err, buffer_m, gpsx, buff_geom, bbox_search, elements,
                   j, found, deduped>>
    /\ UNCHANGED envVars

\* lines 192-194: the filter loop is over
FilterDone ==
    /\ pc = "filter"
    /\ i > Len(elements)
    /\ pc' = "dedupe"
    /\ found' = {}
    /\ deduped' = << >>
    /\ j' = 1
    /\ UNCHANGED <<err, buffer_m, gpsx, buff_geom, bbox_search, elements, i,
                   results>>
    /\ UNCHANGED envVars

\* FoundAdd that records nothing
FoundAddNothing(S, k) == S

\* line 203
FoundAdd(S, k) == S \cup {k}

\* lines 195-204: one iteration of the dedup loop
DedupeStep ==
    /\ pc = "dedupe"
    /\ j <= Len(results)
    /\ LET r == results[j]
       IN  IF key(r) \in found
           THEN UNCHANGED <<found, deduped>>
           ELSE /\ found' = FoundAdd(found, key(r))
                /\ deduped' = Append(deduped, r)
    /\ j' = j + 1
    /\ UNCHANGED <<pc, err, buffer_m, gpsx, buff_geom, bbox_search, elements,
                   i, results>>
    /\ UNCHANGED envVars

\* line 205
Return ==
    /\ pc = "dedupe"
    /\ j > Len(results)
    /\ pc' = "done"
    /\ UNCHANGED <<err, buffer_m, gpsx, buff_geom, bbox_search, elements, i,
                   results, j, found, deduped>>
    /\ UNCHANGED envVars

SearchInit(p) ==
    /\ pc = p
    /\ err = NoErr
    /\ gpsx = << >>
    /\ buff_geom = EmptyGeom
    /\ bbox_search = NaNEnvelope
    /\ elements = << >>
    /\ i = 1
    /\ results = << >>
    /\ j = 1
    /\ found = {}
    /\ deduped = << >>

EnvIdle ==
    /\ epc = "idle"
    /\ geomBounds = NaNBounds
    /\ f1 = 0
    /\ f2 = 0
    /\ env1 = NaNEnvelope
    /\ env2 = NaNEnvelope

Init ==
    /\ buffer_m \in Radii
    /\ SearchInit("set_city")
    /\ EnvIdle

Next ==
    \/ SetCity
    \/ FindRoadway
    \/ CreateBuffer
    \/ GlobalArea
    \/ SearchZone
    \/ FilterStep
    \/ FilterDone
    \/ DedupeStep
    \/ Return

Spec == Init /\ [][Next]_vars

----------------------------------------------------------------------------
(* global_area on its own (lines 71-77) *)

Extents == {0, 50000, 100000}
Factors == {-200, -60, 0, DefaultExpand, 50, 100}

Box(minx, miny, dx, dy) ==
    [nan |-> FALSE, minx |-> minx, miny |-> miny,
     maxx |-> minx + dx, maxy |-> miny + dy]

EnvInit ==
    /\ buffer_m = DefaultBuffer
    /\ SearchInit("idle")
    /\ epc = "call"
    /\ \E dx \in Extents, dy \in Extents :
          geomBounds = Box(-802000000, 257700000, dx, dy)
    /\ f1 \in Factors
    /\ f2 \in Factors
    /\ f1 < f2
    /\ env1 = NaNEnvelope
    /\ env2 = NaNEnvelope

ComputeEnvelope ==
    /\ epc = "call"
    /\ env1' = global_area(geomBounds, f1)
    /\ env2' = global_area(geomBounds, f2)
    /\ epc' = "returned"
    /\ UNCHANGED <<geomBounds, f1, f2>>
    /\ UNCHANGED searchVars

EnvNext == ComputeEnvelope

EnvSpec == EnvInit /\ [][EnvNext]_vars

----------------------------------------------------------------------------
(* Properties *)

\* the key the data model gives a record: name, latitude and longitude
\* rounded to 6 decimal places
ClaimKey(r) == << r["placename"], Round(r["latitude"], 6),
                  Round(r["longitude"], 6) >>

Pos(r) == Pt(r["longitude"], r["latitude"])

\* the records of s whose key no earlier record of s has, in the order of s
RECURSIVE KeepFirst(_)
KeepFirst(s) ==
    IF s = << >> THEN << >>
    ELSE LET n == Len(s)
             init == SubSeq(s, 1, n - 1)
         IN  IF \E m \in 1..(n - 1) : ClaimKey(s[m]) = ClaimKey(s[n])
             THEN KeepFirst(init)
             ELSE Append(KeepFirst(init), s[n])

Returned == pc = "done"

\* C1: the list road_search returns holds no two records with the same key
\* (placename, latitude rounded to 6 places, longitude rounded to 6 places).
C1_NoDuplicateKeys ==
    \A a, b \in 1..Len(deduped) :
        a # b => ClaimKey(deduped[a]) # ClaimKey(deduped[b])

\* two accepted records had one key, and the list was returned
C1_Witness ==
    /\ Returned
    /\ Len(results) = 2
    /\ ClaimKey(results[1]) = ClaimKey(results[2])

\* C2: the dedup pass keeps, in their original order, exactly the earliest
\* record of every key, unchanged, and drops the later ones without an error.
C2_FirstOccurrenceWins ==
    pc \in {"dedupe", "done"} =>
        /\ deduped = KeepFirst(SubSeq(results, 1, j - 1))
        /\ err = NoErr
        /\ Returned => j = Len(results) + 1

\* a later record that differs from the first one of its key was dropped
C2_Witness ==
    /\ Returned
    /\ Len(results) = 2
    /\ results[1] # results[2]
    /\ deduped = << results[1] >>

\* the interior of the corridor, from the planar geometry
StrictlyInside(pt, geom) ==
    /\ geom.r > 0
    /\ geom.line # << >>
    /\ GeomSide(trans_to_utm(geom.zone, pt), geom) = -1

\* record r is what candidate e yields
YieldedBy(r, e) ==
    LET place == chosen_area(e)
    IN  /\ ~place.none
        /\ place.latitude = r["latitude"]
        /\ place.longitude = r["longitude"]
        /\ place.placename = r["placename"]

\* C3: every returned record lies strictly inside the corridor of this
\* search and comes from a candidate that has a position; no candidate that
\* fails the containment test and no non-node without a center is returned.
C3_OnlyContainedRecords ==
    \A r \in {results[k] : k \in 1..Len(results)} \cup
             {deduped[k] : k \in 1..Len(deduped)} :
        /\ StrictlyInside(Pos(r), buff_geom)
        /\ \E k \in 1..Len(elements) : YieldedBy(r, elements[k])

\* a list was returned for which one candidate was accepted, one failed the
\* containment test or had no center
C3_Witness ==
    /\ Returned
    /\ deduped # << >>
    /\ \E k \in 1..Len(elements) :
          \/ chosen_area(elements[k]).none
          \/ ~StrictlyInside(Pt(chosen_area(elements[k]).longitude,
                                chosen_area(elements[k]).latitude), buff_geom)

RequiredKeys == {"roadway", "placename", "placename_ascii", "placename_en",
                 "placetag", "latitude", "longitude", "state/province",
                 "country"}

\* C4: the key set of every emitted record is exactly the nine keys of the
\* documented output shape.
C4_ExactKeySet ==
    \A k \in 1..Len(deduped) : DOMAIN deduped[k] = RequiredKeys

EnvContains(env, b) ==
    /\ ~env.nan
    /\ env.south <= b.miny
    /\ env.west <= b.minx
    /\ env.north >= b.maxy
    /\ env.east >= b.maxx

\* C5: whenever global_area returns an envelope, it contains the bounding
\* box it was computed from.
C5_EnvelopeContainsCorridor ==
    epc = "returned" =>
        /\ EnvContains(env1, geomBounds)
        /\ EnvContains(env2, geomBounds)

AreaUnit == DegUnit \div 10000
Width(env) == env.east - env.west
Height(env) == env.north - env.south
Area(env) == (Width(env) \div AreaUnit) * (Height(env) \div AreaUnit)
ExtentX(b) == b.maxx - b.minx
ExtentY(b) == b.maxy - b.miny

\* the integer arithmetic of the model is exact on its inputs
EnvExact ==
    epc = "returned" =>
        \A f \in {f1, f2} :
            /\ (ExtentX(geomBounds) * f) % FactorDen = 0
            /\ (ExtentY(geomBounds) * f) % FactorDen = 0
            /\ Width(global_area(geomBounds, f)) % AreaUnit = 0
            /\ Height(global_area(geomBounds, f)) % AreaUnit = 0

\* C6, as stated, on the factors the specification admits: for f1 < f2 the
\* area of the envelope strictly increases, for every bounding box.
C6_AreaStrictlyIncreases ==
    (epc = "returned" /\ f1 > 0) => Area(env1) < Area(env2)

\* C6, amended: for f1 < f2 each side of the envelope is at least as long,
\* and longer exactly when the box has positive extent in that dimension;
\* for factors >= 0 the area does not decrease, it increases when the box
\* has positive extent in some dimension and is the square of twice the
\* fixed pad, whatever the factor, when the box has no extent.
C6_AreaMonotone ==
    epc = "returned" =>
        /\ Width(env1) <= Width(env2)
        /\ Height(env1) <= Height(env2)
        /\ (Width(env1) < Width(env2)) <=> (ExtentX(geomBounds) > 0)
        /\ (Height(env1) < Height(env2)) <=> (ExtentY(geomBounds) > 0)
        /\ f1 >= 0 =>
             /\ Area(env1) <= Area(env2)
             /\ (Area(env1) < Area(env2)) <=>
                    (ExtentX(geomBounds) > 0 \/ ExtentY(geomBounds) > 0)
        /\ (ExtentX(geomBounds) = 0 /\ ExtentY(geomBounds) = 0) =>
             /\ Area(env1) = Area(env2)
             /\ Width(env1) = 2 * FixedPad
             /\ Height(env1) = 2 * FixedPad

\* both envelopes of a box without extent, for two factors >= 0
C6_Witness ==
    /\ epc = "returned"
    /\ f1 >= 0
    /\ ExtentX(geomBounds) = 0
    /\ ExtentY(geomBounds) = 0

\* the boundary of the corridor, from the planar geometry
OnBoundary(pt, geom) ==
    /\ geom.r > 0
    /\ geom.line # << >>
    /\ GeomSide(trans_to_utm(geom.zone, pt), geom) = 0

\* C7: a candidate that lies exactly on the boundary of the corridor is
\* accepted into the results.
C7_BoundaryAccepted ==
    pc \in {"dedupe", "done"} =>
        \A k \in 1..Len(elements) :
            LET place == chosen_area(elements[k])
            IN  (~place.none /\
                 OnBoundary(Pt(place.longitude, place.latitude), buff_geom))
                => \E m \in 1..Len(results) : YieldedBy(results[m], elements[k])

\* two accepted records named Miami at longitude -80.1939000 and the two
\* latitudes given, in 1e-7 degree
MiamiPair(latA, latB) ==
    /\ Len(results) = 2
    /\ \A k \in 1..2 : /\ results[k]["placename"] = "Miami"
                       /\ results[k]["longitude"] = -801939000
    /\ results[1]["latitude"] = latA
    /\ results[2]["latitude"] = latB

\* C8, as stated: the records at latitudes 25.774200 and 25.774201 have the
\* same key and the dedup pass keeps exactly one of them.
C8_MiamiPairCollapses ==
    (Returned /\ MiamiPair(257742000, 257742010)) =>
        /\ ClaimKey(results[1]) = ClaimKey(results[2])
        /\ Len(deduped) = 1

\* C8, amended: latitudes 25.774200 and 25.774201 differ in the sixth
\* decimal place, the two keys differ and both records are kept; records at
\* 25.7742000 and 25.7742001, which differ only in the seventh, have the
\* same key and the first alone is kept.
C8_MiamiPairKept ==
    /\ (Returned /\ MiamiPair(257742000, 257742010)) =>
          /\ ClaimKey(results[1]) # ClaimKey(results[2])
          /\ deduped = results
    /\ (Returned /\ MiamiPair(257742000, 257742001)) =>
          /\ ClaimKey(results[1]) = ClaimKey(results[2])
          /\ deduped = << results[1] >>

\* the dedup pass has run on the pair at 25.774200 and 25.774201
C8_Witness == Returned /\ MiamiPair(257742000, 257742010)

CorridorBuilt == pc \in {"global_area", "search_zone", "filter", "dedupe", "done"}

C10_NonPositiveRadiusRejected ==
    buffer_m <= 0 => ~CorridorBuilt

====
